---- MODULE Spec2Model ----
(***************************************************************************)
(* A model of the citation position classifier of                          *)
(* src/streamlit_app.py (calculate_position_python) and of the Python      *)
(* values and float operations it is built from.                           *)
(*                                                                         *)
(* Python values are records [t, f, s]: t is the type tag, f the number    *)
(* (for "int" and "float"), s the characters (for "str").  A float is a    *)
(* record [k, n, d]: k = "fin" is the rational n/d with d > 0, and "nan",  *)
(* "pinf", "ninf" are the IEEE specials.  Finite floats are kept as exact  *)
(* rationals; on the inputs drawn here (integers below 2^31 over page      *)
(* sizes of a few hundred) a quotient differs from 0.33 and 0.67 by far    *)
(* more than a rounding error unless it equals them, so the exact          *)
(* comparison and the IEEE one agree.                                      *)
(***************************************************************************)
EXTENDS Integers, Sequences, FiniteSets, TLC

\* Page sizes drawn as inputs are 100, 200, ..., 100 * MaxPageK.
MaxPageK == 2

(***************************************************************************)
(* Floats.                                                                 *)
(***************************************************************************)
Fin(n, d) == [k |-> "fin", n |-> n, d |-> d]
NaN == [k |-> "nan", n |-> 0, d |-> 1]
PInf == [k |-> "pinf", n |-> 0, d |-> 1]
NInf == [k |-> "ninf", n |-> 0, d |-> 1]

\* -1, 0 or 1: the sign of a float that is not a NaN.
FSign(a) ==
  CASE a.k = "pinf" -> 1
    [] a.k = "ninf" -> -1
    [] OTHER -> IF a.n > 0 THEN 1 ELSE IF a.n < 0 THEN -1 ELSE 0

\* a + b
FAdd(a, b) ==
  CASE a.k = "nan" \/ b.k = "nan" -> NaN
    [] a.k = "fin" /\ b.k = "fin" -> Fin(a.n * b.d + b.n * a.d, a.d * b.d)
    [] a.k = "fin" -> b
    [] b.k = "fin" -> a
    [] OTHER -> IF a.k = b.k THEN a ELSE NaN

\* a / b for b # 0 (Python raises ZeroDivisionError for b = 0, see FloatDiv)
FDiv(a, b) ==
  CASE a.k = "nan" \/ b.k = "nan" -> NaN
    [] a.k = "fin" /\ b.k = "fin" ->
         IF b.n > 0 THEN Fin(a.n * b.d, a.d * b.n)
                    ELSE Fin((0 - a.n) * b.d, a.d * (0 - b.n))
    [] a.k = "fin" -> Fin(0, 1)
    [] b.k = "fin" -> IF FSign(a) * FSign(b) > 0 THEN PInf ELSE NInf
    [] OTHER -> NaN

\* a < b; every comparison with a NaN is false
FLt(a, b) ==
  CASE a.k = "nan" \/ b.k = "nan" -> FALSE
    [] a.k = "fin" /\ b.k = "fin" -> a.n * b.d < b.n * a.d
    [] a.k = "ninf" -> b.k # "ninf"
    [] a.k = "pinf" -> FALSE
    [] OTHER -> b.k = "pinf"

\* a > b
FGt(a, b) == FLt(b, a)

\* a == b
FEq(a, b) ==
  CASE a.k = "nan" \/ b.k = "nan" -> FALSE
    [] a.k = "fin" /\ b.k = "fin" -> a.n * b.d = b.n * a.d
    [] OTHER -> a.k = b.k

\* a <= b
FLe(a, b) == FLt(a, b) \/ FEq(a, b)

(***************************************************************************)
(* Python values and outcomes of evaluating an expression.                 *)
(***************************************************************************)
PyNone == [t |-> "None", f |-> Fin(0, 1), s |-> <<>>]
PyInt(n) == [t |-> "int", f |-> Fin(n, 1), s |-> <<>>]
PyFloat(x) == [t |-> "float", f |-> x, s |-> <<>>]
PyStr(chars) == [t |-> "str", f |-> Fin(0, 1), s |-> chars]
\* a list, one of the types float() does not accept
PyList == [t |-> "list", f |-> Fin(0, 1), s |-> <<>>]
\* an int beyond the range of a float, such as 10**400
PyBigInt == [t |-> "bigint", f |-> Fin(0, 1), s |-> <<>>]

\* the value of an expression, or the exception it raised
Value(x) == [exc |-> "", f |-> x]
Raised(e) == [exc |-> e, f |-> NaN]

(***************************************************************************)
(* float(): the conversion of lines 178-183.  Text is a sequence of        *)
(* one-character strings.  float() strips blanks, then reads an optional   *)
(* sign followed by "nan", "inf" or decimal digits with at most one point; *)
(* exponents, underscores and upper-case spellings are not modelled, and   *)
(* no text drawn as an input uses them.                                    *)
(***************************************************************************)
Digits == {"0", "1", "2", "3", "4", "5", "6", "7", "8", "9"}

DigitVal(c) ==
  CASE c = "0" -> 0 [] c = "1" -> 1 [] c = "2" -> 2 [] c = "3" -> 3
    [] c = "4" -> 4 [] c = "5" -> 5 [] c = "6" -> 6 [] c = "7" -> 7
    [] c = "8" -> 8 [] c = "9" -> 9

RECURSIVE LStrip(_)
LStrip(s) == IF s # <<>> /\ Head(s) = " " THEN LStrip(Tail(s)) ELSE s

RECURSIVE RStrip(_)
RStrip(s) ==
  IF s # <<>> /\ s[Len(s)] = " " THEN RStrip(SubSeq(s, 1, Len(s) - 1)) ELSE s

\* the digits of s read as one decimal number, the point skipped
RECURSIVE DigitsValue(_, _)
DigitsValue(s, acc) ==
  IF s = <<>> THEN acc
  ELSE IF Head(s) = "." THEN DigitsValue(Tail(s), acc)
  ELSE DigitsValue(Tail(s), 10 * acc + DigitVal(Head(s)))

RECURSIVE Pow10(_)
Pow10(k) == IF k = 0 THEN 1 ELSE 10 * Pow10(k - 1)

\* float(s) for a str s
ParseFloat(s) ==
  LET t == RStrip(LStrip(s))
      signed == t # <<>> /\ Head(t) \in {"+", "-"}
      neg == t # <<>> /\ Head(t) = "-"
      body == IF signed THEN Tail(t) ELSE t
      points == {i \in 1..Len(body) : body[i] = "."}
      ndigits == Cardinality({i \in 1..Len(body) : body[i] \in Digits})
      decimal == /\ \A i \in 1..Len(body) : body[i] \in Digits \cup {"."}
                 /\ Cardinality(points) <= 1
                 /\ ndigits >= 1
      frac == IF points = {} THEN 0
              ELSE Len(body) - (CHOOSE i \in points : TRUE)
      mag == DigitsValue(body, 0)
  IN CASE body = <<"n", "a", "n">> -> Value(NaN)
       [] body = <<"i", "n", "f">> -> Value(IF neg THEN NInf ELSE PInf)
       [] decimal -> Value(Fin(IF neg THEN 0 - mag ELSE mag, Pow10(frac)))
       [] OTHER -> Raised("ValueError")

\* float(v) for a Python value v
ToFloat(v) ==
  CASE v.t \in {"int", "float"} -> Value(v.f)
    [] v.t = "str" -> ParseFloat(v.s)
    [] v.t = "bigint" -> Raised("OverflowError")
    [] OTHER -> Raised("TypeError")

\* a / b in Python: a float division by zero raises
FloatDiv(a, b) ==
  IF b.k = "fin" /\ b.n = 0 THEN Raised("ZeroDivisionError") ELSE Value(FDiv(a, b))

(***************************************************************************)
(* calculate_position_python                                               *)
(***************************************************************************)
FallbackWidth == 612
FallbackHeight == 792

\* the literals 0.33 and 0.67
LowThreshold == Fin(33, 100)
HighThreshold == Fin(67, 100)

Returned(label) == [kind |-> "return", value |-> label]
Propagated(e) == [kind |-> "raise", value |-> e]
NoResult == [kind |-> "pending", value |-> ""]

(***************************************************************************)
(* Variants of the definitions below, each with one slip the code could    *)
(* have made.  The properties are re-checked with a variant in place of    *)
(* the definition to see that they depend on it.                           *)
(***************************************************************************)
\* float(bbox), with no test for None
CoerceCoordinateNoNone(v) == ToFloat(v)

\* float(bbox) if bbox is not None else 0.0
CoerceCoordinate(v) == IF v = PyNone THEN Value(Fin(0, 1)) ELSE ToFloat(v)

\* float(dim) if dim is not None else <fallback>
CoerceDimension(v, fallback) ==
  IF v = PyNone THEN Value(Fin(fallback, 1)) ELSE ToFloat(v)

\* if dim < 0: dim = <fallback>
ValidDimensionStrict(dim, fallback) ==
  IF FLt(dim, Fin(0, 1)) THEN Fin(fallback, 1) ELSE dim

\* if dim <= 0: dim = <fallback>
ValidDimension(dim, fallback) ==
  IF FLe(dim, Fin(0, 1)) THEN Fin(fallback, 1) ELSE dim

\* a + |b - a| / 2: the centre when a <= b only
CenterPointFromOrigin(a, b) ==
  IF a.k = "fin" /\ b.k = "fin" /\ FLt(b, a)
  THEN FAdd(a, FDiv(FAdd(a, Fin(0 - b.n, b.d)), Fin(2, 1)))
  ELSE FDiv(FAdd(a, b), Fin(2, 1))

\* the corner a taken for the centre
CenterPointCorner(a, b) == FDiv(FAdd(a, a), Fin(2, 1))

\* (a + b) / 2
CenterPoint(a, b) == FDiv(FAdd(a, b), Fin(2, 1))

\* y taken to grow downwards
VerticalBandFlipped(rel_y) ==
  IF FGt(rel_y, HighThreshold) THEN "bottom"
  ELSE IF FLt(rel_y, LowThreshold) THEN "top"
  ELSE "middle"

VerticalBand(rel_y) ==
  IF FGt(rel_y, HighThreshold) THEN "top"
  ELSE IF FLt(rel_y, LowThreshold) THEN "bottom"
  ELSE "middle"

\* the thresholds included in the outer bands
HorizontalBandInclusive(rel_x) ==
  IF FLe(rel_x, LowThreshold) THEN "left"
  ELSE IF FLe(HighThreshold, rel_x) THEN "right"
  ELSE "center"

\* the outer bands kept to the page, 0 <= rel_x <= 1
HorizontalBandInPage(rel_x) ==
  IF FLe(Fin(0, 1), rel_x) /\ FLt(rel_x, LowThreshold) THEN "left"
  ELSE IF FGt(rel_x, HighThreshold) /\ FLe(rel_x, Fin(1, 1)) THEN "right"
  ELSE "center"

HorizontalBand(rel_x) ==
  IF FLt(rel_x, LowThreshold) THEN "left"
  ELSE IF FGt(rel_x, HighThreshold) THEN "right"
  ELSE "center"

\* f"{horizontal}-{vertical}"
FormatLabelSwapped(vertical, horizontal) == horizontal \o "-" \o vertical

\* f"{vertical}-{horizontal}"
FormatLabel(vertical, horizontal) == vertical \o "-" \o horizontal

\* except (TypeError, ZeroDivisionError)
HandleExceptionNoValueError(e) ==
  IF e \in {"TypeError", "ZeroDivisionError"}
  THEN Returned("middle-center")
  ELSE Propagated(e)

\* except (ValueError, TypeError, ZeroDivisionError): return "middle-center";
\* any other exception leaves the function
HandleException(e) ==
  IF e \in {"ValueError", "TypeError", "ZeroDivisionError"}
  THEN Returned("middle-center")
  ELSE Propagated(e)

\* the first exception of a sequence of evaluations, "" when none raised
RECURSIVE FirstException(_)
FirstException(evals) ==
  IF evals = <<>> THEN ""
  ELSE IF Head(evals).exc # "" THEN Head(evals).exc
  ELSE FirstException(Tail(evals))

\* rel_x = center_x / page_height: both axes divided by the height
calculate_position_by_height(bbox_x0, bbox_y0, bbox_x1, bbox_y1, page_width, page_height) ==
  LET x0 == CoerceCoordinate(bbox_x0)
      y0 == CoerceCoordinate(bbox_y0)
      x1 == CoerceCoordinate(bbox_x1)
      y1 == CoerceCoordinate(bbox_y1)
      pw == CoerceDimension(page_width, FallbackWidth)
      ph == CoerceDimension(page_height, FallbackHeight)
      coerced == FirstException(<<x0, y0, x1, y1, pw, ph>>)
      height == ValidDimension(ph.f, FallbackHeight)
      center_x == CenterPoint(x0.f, x1.f)
      center_y == CenterPoint(y0.f, y1.f)
      rel_x == FloatDiv(center_x, height)
      rel_y == FloatDiv(center_y, height)
      divided == FirstException(<<rel_x, rel_y>>)
  IN IF coerced # "" THEN HandleException(coerced)
     ELSE IF divided # "" THEN HandleException(divided)
     ELSE Returned(FormatLabel(VerticalBand(rel_y.f), HorizontalBand(rel_x.f)))

calculate_position_python(bbox_x0, bbox_y0, bbox_x1, bbox_y1, page_width, page_height) ==
  LET x0 == CoerceCoordinate(bbox_x0)
      y0 == CoerceCoordinate(bbox_y0)
      x1 == CoerceCoordinate(bbox_x1)
      y1 == CoerceCoordinate(bbox_y1)
      pw == CoerceDimension(page_width, FallbackWidth)
      ph == CoerceDimension(page_height, FallbackHeight)
      coerced == FirstException(<<x0, y0, x1, y1, pw, ph>>)
      width == ValidDimension(pw.f, FallbackWidth)
      height == ValidDimension(ph.f, FallbackHeight)
      center_x == CenterPoint(x0.f, x1.f)
      center_y == CenterPoint(y0.f, y1.f)
      rel_x == FloatDiv(center_x, width)
      rel_y == FloatDiv(center_y, height)
      divided == FirstException(<<rel_x, rel_y>>)
  IN IF coerced # "" THEN HandleException(coerced)
     ELSE IF divided # "" THEN HandleException(divided)
     ELSE Returned(FormatLabel(VerticalBand(rel_y.f), HorizontalBand(rel_x.f)))

(***************************************************************************)
(* log_execution_step                                                      *)
(***************************************************************************)
\* the entries the log keeps
LogLimit == 10

LogEntry(step_name, details) == [step |-> step_name, details |-> details]

\* the log cut to its first entries: execution_log[:10]
log_execution_step_oldest(log, step_name, details) ==
  LET appended == Append(log, LogEntry(step_name, details))
  IN IF Len(appended) > LogLimit THEN SubSeq(appended, 1, LogLimit) ELSE appended

\* execution_log after log_execution_step(step_name, details)
log_execution_step(log, step_name, details) ==
  LET appended == Append(log, LogEntry(step_name, details))
  IN IF Len(appended) > LogLimit
     THEN SubSeq(appended, Len(appended) - LogLimit + 1, Len(appended))
     ELSE appended

(***************************************************************************)
(* search_protocols: the formatting of the passages of a response.  A      *)
(* passage is a record of the Python values under its keys; PyMissing      *)
(* stands for a key the passage does not have.                             *)
(***************************************************************************)
PyMissing == [t |-> "missing", f |-> Fin(0, 1), s |-> <<>>]

\* result.get(key, default)
GetField(v, default) == IF v = PyMissing THEN default ELSE v

\* float(bbox) if bbox is not None else 0.0
ConvertCoordinate(v) == IF v = PyNone THEN Value(Fin(0, 1)) ELSE ToFloat(v)

\* int(x) for a float x: truncation; int(nan) and int(inf) raise
IntOfFloat(x) ==
  CASE x.k = "nan" -> Raised("ValueError")
    [] x.k \in {"pinf", "ninf"} -> Raised("OverflowError")
    [] OTHER -> Value(Fin(IF x.n >= 0 THEN x.n \div x.d
                                       ELSE 0 - ((0 - x.n) \div x.d), 1))

\* int(float(page)) if page is not None else 0
ConvertPage(v) ==
  IF v = PyNone THEN Value(Fin(0, 1))
  ELSE IF ToFloat(v).exc # "" THEN ToFloat(v)
  ELSE IntOfFloat(ToFloat(v).f)

Skipped == [skip |-> TRUE, chunk_id |-> "", page |-> 0, position |-> "", bbox |-> <<>>]

\* the body of the loop for one passage, with the page size of the passage ignored
FormatResultLetterPage(passage) ==
  LET bbox_x0 == GetField(passage.bbox_x0, PyInt(0))
      bbox_y0 == GetField(passage.bbox_y0, PyInt(0))
      bbox_x1 == GetField(passage.bbox_x1, PyInt(0))
      bbox_y1 == GetField(passage.bbox_y1, PyInt(0))
      page == GetField(passage.page, PyInt(0))
      x0 == ConvertCoordinate(bbox_x0)
      y0 == ConvertCoordinate(bbox_y0)
      x1 == ConvertCoordinate(bbox_x1)
      y1 == ConvertCoordinate(bbox_y1)
      page_int == ConvertPage(page)
      converted == FirstException(<<x0, y0, x1, y1, page_int>>)
      position == calculate_position_python(PyFloat(x0.f), PyFloat(y0.f), PyFloat(x1.f),
                                            PyFloat(y1.f), PyInt(612), PyInt(792))
  IN IF converted # "" THEN Skipped
     ELSE IF position.kind # "return" THEN Skipped
     ELSE [ skip |-> FALSE, chunk_id |-> passage.chunk_id, page |-> page_int.f.n,
            position |-> position.value, bbox |-> <<x0.f, y0.f, x1.f, y1.f>> ]

\* the body of the loop of lines 337-395 for one passage: the entry appended,
\* or Skipped when a conversion or the classifier raised (both except clauses
\* continue with the next passage)
FormatResult(passage) ==
  LET bbox_x0 == GetField(passage.bbox_x0, PyInt(0))
      bbox_y0 == GetField(passage.bbox_y0, PyInt(0))
      bbox_x1 == GetField(passage.bbox_x1, PyInt(0))
      bbox_y1 == GetField(passage.bbox_y1, PyInt(0))
      page_width == GetField(passage.page_width, PyInt(612))
      page_height == GetField(passage.page_height, PyInt(792))
      page == GetField(passage.page, PyInt(0))
      x0 == ConvertCoordinate(bbox_x0)
      y0 == ConvertCoordinate(bbox_y0)
      x1 == ConvertCoordinate(bbox_x1)
      y1 == ConvertCoordinate(bbox_y1)
      page_int == ConvertPage(page)
      converted == FirstException(<<x0, y0, x1, y1, page_int>>)
      position == calculate_position_python(PyFloat(x0.f), PyFloat(y0.f), PyFloat(x1.f),
                                            PyFloat(y1.f), page_width, page_height)
  IN IF converted # "" THEN Skipped
     ELSE IF position.kind # "return" THEN Skipped
     ELSE [ skip |-> FALSE, chunk_id |-> passage.chunk_id, page |-> page_int.f.n,
            position |-> position.value, bbox |-> <<x0.f, y0.f, x1.f, y1.f>> ]

\* formatted_results for results_array
RECURSIVE FormatResults(_)
FormatResults(results_array) ==
  IF results_array = <<>> THEN <<>>
  ELSE LET entry == FormatResult(Head(results_array))
       IN (IF entry.skip THEN <<>> ELSE <<entry>>) \o FormatResults(Tail(results_array))

(***************************************************************************)
(* search_protocols.  The service's part in a call is its outcome:         *)
(*   "raise"       cortex_search_service.search() raised;                  *)
(*   "json_raise"  search() returned and response.json() raised;           *)
(*   "not_dict"    the response is JSON that is no dict;                   *)
(*   "ok"          the response is a dict whose 'results' are `results`.   *)
(***************************************************************************)
\* a search() sent again after a failure
SearchAttemptsRetry(outcome) == IF outcome = "raise" THEN 2 ELSE 1

\* requests sent to the service by one call: the one search() of lines 282-298
SearchAttempts(outcome) == 1

\* the error response without the text of the exception
ErrorResponseNoText(e) == [kind |-> "error", error |-> "", results |-> <<>>]

\* {"error": str(e), "results": []}
ErrorResponse(e) == [kind |-> "error", error |-> e, results |-> <<>>]
JsonResponse(kind, results) == [kind |-> kind, error |-> "", results |-> results]

\* what search_protocols(query) returns and leaves in the session state, for
\* the metrics and the log it starts from
search_protocols(query, service, metrics, log) ==
  LET counted == [metrics EXCEPT !.cortex_search_calls = @ + 1]
      results_array == IF service.outcome = "ok" THEN service.results ELSE <<>>
  IN CASE service.outcome = "raise" ->
            [ formatted_results |-> <<>>,
              raw_response |-> ErrorResponse("search failed"),
              performance_metrics |-> metrics,
              execution_log |-> log_execution_step(log, "Cortex Search Error", query),
              error_shown |-> TRUE ]
       [] service.outcome = "json_raise" ->
            [ formatted_results |-> <<>>,
              raw_response |-> ErrorResponse("invalid json"),
              performance_metrics |-> counted,
              execution_log |-> log_execution_step(log, "Cortex Search Error", query),
              error_shown |-> TRUE ]
       [] OTHER ->
            [ formatted_results |-> FormatResults(results_array),
              raw_response |-> JsonResponse(service.outcome, results_array),
              performance_metrics |-> counted,
              execution_log |-> log_execution_step(log, "Cortex Search Execution", query),
              error_shown |-> FALSE ]

(***************************************************************************)
(* synthesize_answer_with_llm.  The completion's part in a call is its     *)
(* outcome:                                                                *)
(*   "raise"    session.sql(...).collect() raised;                         *)
(*   "no_rows"  it returned no row;                                        *)
(*   "null"     it returned a row whose RESPONSE is None;                  *)
(*   "answer"   it returned a row whose RESPONSE has `words` words.        *)
(***************************************************************************)
\* words of the prompt template of lines 530-551 without context and question
PromptTemplateWords == 104
\* words of one chunk_text (line 516) with a one-word document name and text
ChunkWords == 8
\* words of the question: the queries of the model are single words
QuestionWords == 1

\* len(prompt.split())
PromptWords(search_results) ==
  PromptTemplateWords + ChunkWords * Len(search_results) + QuestionWords

\* the query sent again after a failure
CompleteAttemptsRetry(outcome) == IF outcome \in {"raise", "no_rows"} THEN 2 ELSE 1

\* AI_COMPLETE queries sent by one call: the one session.sql of line 570
CompleteAttempts(outcome) == 1

\* the citations built by the loop of lines 515-525
Citations(search_results) ==
  [ i \in 1..Len(search_results) |->
      [ source_num |-> i,
        page |-> search_results[i].page,
        position |-> search_results[i].position,
        bbox |-> search_results[i].bbox ] ]

synthesize_answer_with_llm(question, search_results, model_name, completion, metrics, log) ==
  LET citations == Citations(search_results)
      called == [metrics EXCEPT !.llm_calls = @ + 1,
                                !.total_input_tokens = @ + PromptWords(search_results)]
  IN CASE completion.outcome = "answer" ->
            [ answer |-> "answer", citations |-> citations,
              performance_metrics |->
                [called EXCEPT !.total_output_tokens = @ + completion.words],
              execution_log |-> log_execution_step(log, "LLM Answer Synthesis", model_name) ]
       [] completion.outcome = "null" ->
            \* answer.split() raises on None, after the first two counters moved
            [ answer |-> "Error synthesizing answer", citations |-> citations,
              performance_metrics |-> called,
              execution_log |-> log_execution_step(log, "LLM Error", model_name) ]
       [] completion.outcome = "no_rows" ->
            [ answer |-> "Error: No response from LLM", citations |-> citations,
              performance_metrics |-> metrics,
              execution_log |-> log_execution_step(log, "LLM Error", model_name) ]
       [] OTHER ->
            [ answer |-> "Error synthesizing answer", citations |-> citations,
              performance_metrics |-> metrics,
              execution_log |-> log_execution_step(log, "LLM Error", model_name) ]

(***************************************************************************)
(* The session state of lines 619-645 and the sidebar's model list.        *)
(***************************************************************************)
ai_complete_models ==
  << "claude-4-sonnet", "claude-haiku-4-5", "claude-sonnet-4-5", "claude-3-7-sonnet",
     "claude-3-5-sonnet", "llama4-maverick", "llama4-scout", "llama3.3-70b",
     "llama3.1-405b", "llama3.1-70b", "llama3.1-8b", "llama3-70b", "llama3-8b",
     "mistral-large2", "openai-gpt-5", "openai-gpt-5-mini" >>

\* index=4 of the selectbox, counted from 0
DefaultModelIndex == 4

\* the option the selectbox returns until the user picks another
SelectboxDefault == ai_complete_models[DefaultModelIndex + 1]

\* results[:5]
ContextSize == 5

\* the whole result list handed to the synthesis
TopResultsAll(results) == results

TopResults(results) ==
  SubSeq(results, 1, IF Len(results) < ContextSize THEN Len(results) ELSE ContextSize)

InitialMetrics ==
  [ total_searches |-> 0, total_response_time |-> 0, cortex_search_calls |-> 0,
    llm_calls |-> 0, total_input_tokens |-> 0, total_output_tokens |-> 0 ]

(***************************************************************************)
(* The inputs of a call, and the call.                                     *)
(***************************************************************************)
\* what a coordinate argument is drawn from
CoordinateInputs ==
  { PyNone, PyInt(0), PyInt(66), PyInt(134), PyStr(<<"-", "4", "0">>),
    PyStr(<<>>), PyFloat(NaN), PyBigInt }

\* what a page dimension argument is drawn from
DimensionInputs ==
  { PyNone, PyInt(0), PyInt(-100), PyList, PyStr(<<"i", "n", "f">>) }
    \cup { PyInt(100 * k) : k \in 1..MaxPageK }

\* coordinates of boxes on a US-Letter page, the spec's examples among them
LetterCoordinates ==
  { PyInt(0), PyInt(100), PyInt(200), PyInt(300), PyInt(400), PyInt(450),
    PyInt(500), PyInt(600), PyInt(612), PyInt(700), PyInt(780), PyInt(792) }

\* the passages a response is made of
Passage(chunk_id, page, x0, y0, x1, y1, pw, ph) ==
  [ chunk_id |-> chunk_id, page |-> page, bbox_x0 |-> x0, bbox_y0 |-> y0,
    bbox_x1 |-> x1, bbox_y1 |-> y1, page_width |-> pw, page_height |-> ph ]

PassageInputs ==
  { Passage("c1", PyInt(3), PyInt(134), PyInt(134), PyInt(134), PyInt(134),
            PyInt(100), PyInt(100)),
    Passage("c2", PyStr(<<"7">>), PyStr(<<"-", "4", "0">>), PyNone, PyInt(66), PyInt(134),
            PyInt(200), PyInt(200)),
    Passage("c3", PyInt(1), PyStr(<<>>), PyInt(0), PyInt(66), PyInt(66),
            PyInt(100), PyInt(100)),
    Passage("c4", PyInt(2), PyInt(0), PyInt(0), PyInt(66), PyInt(66),
            PyBigInt, PyInt(100)),
    Passage("c5", PyNone, PyMissing, PyMissing, PyMissing, PyMissing,
            PyMissing, PyMissing),
    Passage("c6", PyInt(4), PyInt(0), PyInt(0), PyInt(0), PyInt(0),
            PyInt(100), PyInt(100)),
    Passage("c7", PyInt(5), PyInt(66), PyInt(66), PyInt(66), PyInt(66),
            PyInt(100), PyInt(100)),
    Passage("c8", PyInt(6), PyInt(0), PyInt(134), PyInt(66), PyInt(134),
            PyInt(100), PyInt(100)) }

\* searches of one session
MaxSearches == 2

PassageOf(chunk_id) == CHOOSE p \in PassageInputs : p.chunk_id = chunk_id

\* the results arrays of a response: nothing found, two passages in either
\* order, arrays with a passage the formatting skips, and one with more
\* passages than the synthesis is given
Responses ==
  { <<>>,
    <<PassageOf("c1"), PassageOf("c2")>>,
    <<PassageOf("c2"), PassageOf("c1")>>,
    <<PassageOf("c3"), PassageOf("c5")>>,
    <<PassageOf("c1"), PassageOf("c4"), PassageOf("c2")>>,
    <<PassageOf("c3")>>,
    <<PassageOf("c1"), PassageOf("c2"), PassageOf("c5"), PassageOf("c6"),
      PassageOf("c7"), PassageOf("c8")>> }

ServiceOutcomes ==
  { [outcome |-> o, results |-> <<>>] : o \in {"raise", "json_raise", "not_dict"} }
    \cup { [outcome |-> "ok", results |-> r] : r \in Responses }

CompletionOutcomes ==
  { [outcome |-> o, words |-> 0] : o \in {"raise", "no_rows", "null"} }
    \cup { [outcome |-> "answer", words |-> 2] }

\* the text of the query box: empty, or a question
Queries == {"", "dose"}

\* the models picked in the selectbox
ModelChoices == {ai_complete_models[1], ai_complete_models[11]}

\* the rows get_page_content classifies
RowInputs ==
  { [ bbox_x0 |-> p.bbox_x0, bbox_y0 |-> p.bbox_y0, bbox_x1 |-> p.bbox_x1,
      bbox_y1 |-> p.bbox_y1, page_width |-> p.page_width, page_height |-> p.page_height ]
    : p \in { q \in PassageInputs : q.chunk_id \in {"c1", "c3"} } }

NoArgs ==
  [ bbox_x0 |-> PyNone, bbox_y0 |-> PyNone, bbox_x1 |-> PyNone, bbox_y1 |-> PyNone,
    page_width |-> PyNone, page_height |-> PyNone ]

NoService == [outcome |-> "none", results |-> <<>>]
NoResponse == [kind |-> "none", error |-> "", results |-> <<>>]
NoCompletion == [outcome |-> "none", words |-> 0, model |-> "", context |-> <<>>]

VARIABLES
  args, result, pc,            \* a call of calculate_position_python
  search_history, execution_log, performance_metrics,
  use_llm_synthesis, selected_model,      \* st.session_state
  phase,                       \* where the script run stands
  query,                       \* the text in the query box
  results, raw_response,       \* what search_protocols returned
  error_shown,                 \* whether it called st.error
  answer, citations,           \* what synthesize_answer_with_llm returned
  service, search_requests,    \* the last search request, and how many were sent
  completion, llm_requests,    \* the last AI_COMPLETE query, and how many were sent
  model_picked,                \* whether the selectbox holds a pick of the user
  calls, frames,               \* concurrent calls of the classifier, their locals
  selected_citation, highlight,  \* the PDF viewer's citation and its rectangle
  pressed,                     \* the button whose click started the script run
  logged,                      \* every entry given to log_execution_step, in order
  recorded                     \* searches recorded in the history since it was cleared

callVars == <<args, result, pc>>
sessionVars ==
  <<search_history, execution_log, performance_metrics, use_llm_synthesis, selected_model>>
runVars == <<phase, query, results, raw_response, error_shown, answer, citations>>
requestVars == <<service, search_requests, completion, llm_requests, model_picked>>
threadVars == <<calls, frames>>
viewerVars == <<selected_citation, highlight>>
buttonVars == <<pressed>>
ghostVars == <<logged, recorded>>
vars ==
  <<callVars, sessionVars, runVars, requestVars, threadVars, viewerVars, buttonVars,
    ghostVars>>

\* the session state after lines 619-645 of the first script run
InitSession ==
  /\ search_history = <<>>
  /\ use_llm_synthesis = TRUE
  /\ selected_model = "claude-3-5-sonnet"
  /\ execution_log = <<>>
  /\ performance_metrics = InitialMetrics

\* no search made yet
InitRun ==
  /\ phase = "idle"
  /\ query = ""
  /\ results = <<>>
  /\ raw_response = NoResponse
  /\ error_shown = FALSE
  /\ answer = ""
  /\ citations = <<>>
  /\ service = NoService
  /\ search_requests = 0
  /\ completion = NoCompletion
  /\ llm_requests = 0
  /\ model_picked = FALSE
  /\ pressed = "none"
  /\ logged = <<>>
  /\ recorded = 0

\* no concurrent callers
NoThreads ==
  /\ calls = <<>>
  /\ frames = <<>>

\* the PDF viewer has no citation selected
NoViewer ==
  /\ selected_citation = NoArgs
  /\ highlight = NoResult

Init ==
  /\ args \in [ bbox_x0 : CoordinateInputs, bbox_y0 : CoordinateInputs,
                bbox_x1 : CoordinateInputs, bbox_y1 : CoordinateInputs,
                page_width : DimensionInputs, page_height : DimensionInputs ]
  /\ result = NoResult
  /\ pc = "call"
  /\ InitSession
  /\ InitRun
  /\ NoThreads
  /\ NoViewer

\* a call that also logs its error default, as the callers of the service do
ClassifyLogged ==
  /\ pc = "call"
  /\ result' = calculate_position_python(args.bbox_x0, args.bbox_y0, args.bbox_x1,
                                         args.bbox_y1, args.page_width, args.page_height)
  /\ pc' = "done"
  /\ execution_log' =
       IF CoerceCoordinate(args.bbox_x0).exc # ""
       THEN log_execution_step(execution_log, "Position Error", "")
       ELSE execution_log
  /\ UNCHANGED <<args, search_history, performance_metrics, use_llm_synthesis,
                 selected_model, runVars, requestVars,
                 threadVars, viewerVars,
                 buttonVars, ghostVars>>

\* one call of calculate_position_python with the arguments args
Classify ==
  /\ pc = "call"
  /\ result' = calculate_position_python(args.bbox_x0, args.bbox_y0, args.bbox_x1,
                                         args.bbox_y1, args.page_width, args.page_height)
  /\ pc' = "done"
  /\ UNCHANGED <<args, sessionVars, runVars, requestVars,
                 threadVars, viewerVars,
                 buttonVars, ghostVars>>

\* a call for a box on a 612 x 792 page, the page size given or left out
InitLetter ==
  /\ args \in [ bbox_x0 : LetterCoordinates, bbox_y0 : LetterCoordinates,
                bbox_x1 : LetterCoordinates, bbox_y1 : LetterCoordinates,
                page_width : {PyInt(612), PyNone},
                page_height : {PyInt(792), PyNone} ]
  /\ result = NoResult
  /\ pc = "call"
  /\ InitSession
  /\ InitRun
  /\ NoThreads
  /\ NoViewer

Next == Classify

Spec == Init /\ [][Next]_vars

(***************************************************************************)
(* The app: script runs of one session.  A run that finds text in the      *)
(* query box goes through search_protocols, the bookkeeping of lines       *)
(* 1103-1126 and, with results and AI synthesis on, through                *)
(* synthesize_answer_with_llm; the script is sequential, so phase orders   *)
(* these steps.  show_debug and the document filter change what is         *)
(* displayed and sent, not the state kept here, and are left out.          *)
(***************************************************************************)
InitApp ==
  /\ args = NoArgs
  /\ result = NoResult
  /\ pc = "idle"
  /\ InitSession
  /\ InitRun
  /\ NoThreads
  /\ NoViewer

\* if st.button("Search") or query: if query: ...
StartRun(q) == IF q # "" THEN "search" ELSE "idle"

\* another run may start: the searches of a session are bounded
MayRun(q) == q = "" \/ search_requests < MaxSearches

\* where a run stands after the search block: at its end, or at the tab of
\* the button that was pressed
RunEnds == IF pressed \in {"clear", "reset"} THEN "tabs" ELSE "idle"

\* the locals of a new script run; the last run is over
FreshLocals ==
  /\ pc # "call"
  /\ args' = NoArgs
  /\ result' = NoResult
  /\ pc' = "idle"
  /\ results' = <<>>
  /\ raw_response' = NoResponse
  /\ error_shown' = FALSE
  /\ answer' = ""
  /\ citations' = <<>>
  /\ service' = NoService
  /\ completion' = NoCompletion

\* a script run starts on a change of a widget: its locals are new, the
\* session state and the text of the query box are what the last run left
NewRun(q) ==
  /\ query' = q
  /\ phase' = StartRun(q)
  /\ pressed' = "none"
  /\ FreshLocals

\* the user enters a query (or presses Search on an empty box)
SubmitQuery ==
  /\ phase = "idle"
  /\ \E q \in Queries :
       /\ MayRun(q)
       /\ NewRun(q)
  /\ UNCHANGED <<sessionVars, search_requests, llm_requests, model_picked,
                 threadVars, viewerVars, ghostVars>>

\* results, raw_response = search_protocols(query, max_results, doc_filter)
SearchProtocols ==
  /\ phase = "search"
  /\ \E s \in ServiceOutcomes :
       \E r \in {search_protocols(query, s, performance_metrics, execution_log)} :
          /\ results' = r.formatted_results
          /\ raw_response' = r.raw_response
          /\ performance_metrics' = r.performance_metrics
          /\ execution_log' = r.execution_log
          /\ error_shown' = r.error_shown
          /\ service' = s
          /\ search_requests' = search_requests + SearchAttempts(s.outcome)
  /\ phase' = "searched"
  /\ UNCHANGED <<callVars, search_history, use_llm_synthesis, selected_model, query,
                 answer, citations, completion, llm_requests, model_picked,
                 threadVars, viewerVars,
                 buttonVars, ghostVars>>

\* the time a run took, in ticks
Durations == {1}

\* lines 1103-1126 with the history entry appended: search_history.append
RecordSearchAppend ==
  /\ phase = "searched"
  /\ \E total_time \in Durations :
       performance_metrics' =
         [performance_metrics EXCEPT !.total_searches = @ + 1,
                                     !.total_response_time = @ + total_time]
  /\ execution_log' =
       log_execution_step(execution_log, "UI Rendering & Citation Formatting", query)
  /\ search_history' =
       Append(search_history, [query |-> query, results_count |-> Len(results)])
  /\ recorded' = recorded + 1
  /\ phase' = IF Len(results) > 0 /\ use_llm_synthesis THEN "synthesize" ELSE RunEnds
  /\ UNCHANGED <<callVars, use_llm_synthesis, selected_model, query, results,
                 raw_response, error_shown, answer, citations, requestVars,
                 threadVars, viewerVars, buttonVars, logged>>

\* lines 1103-1126: metrics, the UI log entry, the history entry; then the
\* branch to the synthesis (lines 1129 and 1143)
RecordSearch ==
  /\ phase = "searched"
  /\ \E total_time \in Durations :
       performance_metrics' =
         [performance_metrics EXCEPT !.total_searches = @ + 1,
                                     !.total_response_time = @ + total_time]
  /\ execution_log' =
       log_execution_step(execution_log, "UI Rendering & Citation Formatting", query)
  /\ search_history' =
       <<[query |-> query, results_count |-> Len(results)]>> \o search_history
  /\ recorded' = recorded + 1
  /\ phase' = IF Len(results) > 0 /\ use_llm_synthesis THEN "synthesize" ELSE RunEnds
  /\ UNCHANGED <<callVars, use_llm_synthesis, selected_model, query, results,
                 raw_response, error_shown, answer, citations, requestVars,
                 threadVars, viewerVars, buttonVars, logged>>

\* answer, citations = synthesize_answer_with_llm(query, results[:5], selected_model)
SynthesizeAnswer ==
  /\ phase = "synthesize"
  /\ \E c \in CompletionOutcomes :
       \E r \in {synthesize_answer_with_llm(query, TopResults(results), selected_model, c,
                                             performance_metrics, execution_log)} :
          /\ answer' = r.answer
          /\ citations' = r.citations
          /\ performance_metrics' = r.performance_metrics
          /\ execution_log' = r.execution_log
          /\ completion' = [ outcome |-> c.outcome, words |-> c.words,
                             model |-> selected_model, context |-> TopResults(results) ]
          /\ llm_requests' = llm_requests + CompleteAttempts(c.outcome)
  /\ phase' = RunEnds
  /\ UNCHANGED <<callVars, search_history, use_llm_synthesis, selected_model, query,
                 results, raw_response, error_shown, service, search_requests,
                 model_picked,
                 threadVars, viewerVars,
                 buttonVars, ghostVars>>

\* the checkbox of lines 684-688; the rerun it causes runs the search block
\* again.  The selectbox is rendered only while the box is checked, and a
\* widget that comes back returns its default (index=4).
ToggleSynthesis ==
  /\ phase = "idle"
  /\ MayRun(query)
  /\ use_llm_synthesis' = ~use_llm_synthesis
  /\ selected_model' = IF use_llm_synthesis' THEN SelectboxDefault ELSE selected_model
  /\ NewRun(query)
  /\ UNCHANGED <<search_history, execution_log, performance_metrics,
                 search_requests, llm_requests, model_picked,
                 threadVars, viewerVars, ghostVars>>

\* the selectbox of lines 714-719
ChooseModel ==
  /\ phase = "idle"
  /\ use_llm_synthesis
  /\ MayRun(query)
  /\ \E m \in ModelChoices :
       /\ m # selected_model
       /\ selected_model' = m
  /\ model_picked' = TRUE
  /\ NewRun(query)
  /\ UNCHANGED <<search_history, execution_log, performance_metrics,
                 use_llm_synthesis, search_requests, llm_requests,
                 threadVars, viewerVars, ghostVars>>

\* "Load Page" with an empty query box: the run skips the search block and
\* get_page_content reaches a row, the arguments of its call at lines 433-436
PickRow ==
  /\ phase = "idle"
  /\ query = ""
  /\ pc # "call"
  /\ args' \in RowInputs
  /\ result' = NoResult
  /\ pc' = "call"
  /\ UNCHANGED <<sessionVars, runVars, requestVars,
                 threadVars, viewerVars,
                 buttonVars, ghostVars>>

NextApp ==
  \/ SubmitQuery
  \/ SearchProtocols
  \/ RecordSearch
  \/ SynthesizeAnswer
  \/ ToggleSynthesis
  \/ ChooseModel
  \/ PickRow
  \/ Classify

SpecApp == InitApp /\ [][NextApp]_vars

(***************************************************************************)
(* The buttons of the tabs.  A click starts a script run like any change   *)
(* of a widget: the run goes through the search block first (the query box *)
(* keeps its text), reaches the tab of the button, runs its handler and    *)
(* st.rerun() starts the next run, which goes through the search block     *)
(* again.  pressed is the button of the run: "clear" or "reset" until the  *)
(* handler has run, "cleared" or "was reset" in the run st.rerun() started *)
(* and after it, until the next change of a widget.                        *)
(***************************************************************************)
\* st.session_state.search_history[:10]
HistoryShown == 10

\* the entries the Search History tab lists (lines 1302-1304)
RecentSearches(history) ==
  IF Len(history) <= HistoryShown THEN history ELSE SubSeq(history, 1, HistoryShown)

\* the history of a session that searched "dose" once more than the tab
\* shows and found nothing
LongHistory == [i \in 1..(HistoryShown + 1) |-> [query |-> "dose", results_count |-> 0]]

\* that session after its user emptied the query box and reset the metrics;
\* the requests are counted from here
InitLongSession ==
  /\ args = NoArgs
  /\ result = NoResult
  /\ pc = "idle"
  /\ search_history = LongHistory
  /\ execution_log = <<>>
  /\ performance_metrics = InitialMetrics
  /\ use_llm_synthesis = TRUE
  /\ selected_model = SelectboxDefault
  /\ phase = "idle"
  /\ query = ""
  /\ results = <<>>
  /\ raw_response = NoResponse
  /\ error_shown = FALSE
  /\ answer = ""
  /\ citations = <<>>
  /\ service = NoService
  /\ search_requests = 0
  /\ completion = NoCompletion
  /\ llm_requests = 0
  /\ model_picked = FALSE
  /\ pressed = "was reset"
  /\ logged = <<>>
  /\ recorded = Len(LongHistory)
  /\ NoThreads
  /\ NoViewer

\* a new session, or one with a long history
InitButtons == InitApp \/ InitLongSession

\* a click on button b
PressButton(b) ==
  /\ phase = "idle"
  /\ MayRun(query)
  /\ pressed' = b
  /\ FreshLocals
  /\ phase' = IF query # "" THEN "search" ELSE "tabs"
  /\ UNCHANGED <<query, sessionVars, search_requests, llm_requests, model_picked,
                 threadVars, viewerVars, ghostVars>>

\* st.rerun() at the end of a handler
Rerun(after) ==
  /\ pressed' = after
  /\ FreshLocals
  /\ phase' = StartRun(query)
  /\ UNCHANGED <<query, search_requests, llm_requests, model_picked, threadVars,
                 viewerVars, logged>>

\* "Clear History" is there while the history is not empty (line 1302)
PressClear ==
  /\ search_history # <<>>
  /\ PressButton("clear")

\* lines 1306-1308
ClearHistory ==
  /\ phase = "tabs"
  /\ pressed = "clear"
  /\ search_history # <<>>
  /\ search_history' = <<>>
  /\ recorded' = 0
  /\ Rerun("cleared")
  /\ UNCHANGED <<execution_log, performance_metrics, use_llm_synthesis, selected_model>>

\* "Reset Session Metrics" is always there
PressReset ==
  /\ pressed \in {"none", "clear", "cleared", "reset", "was reset"}
  /\ PressButton("reset")

\* lines 1658-1669
ResetMetrics ==
  /\ phase = "tabs"
  /\ pressed = "reset"
  /\ performance_metrics' = InitialMetrics
  /\ execution_log' = <<>>
  /\ Rerun("was reset")
  /\ UNCHANGED <<search_history, use_llm_synthesis, selected_model, recorded>>

NextButtons ==
  \/ SubmitQuery
  \/ SearchProtocols
  \/ RecordSearch
  \/ SynthesizeAnswer
  \/ ToggleSynthesis
  \/ PressClear
  \/ ClearHistory
  \/ PressReset
  \/ ResetMetrics

SpecButtons == InitButtons /\ [][NextButtons]_vars

(***************************************************************************)
(* Concurrent callers.  Each session runs its script in a thread of its    *)
(* own, so calls of calculate_position_python overlap.  A call is taken    *)
(* statement by statement; what it reads and writes are its parameters and *)
(* locals, which live in the frame of the call.                            *)
(***************************************************************************)
MaxCallers == 2
Callers == 1..MaxCallers

\* the arguments of the concurrent calls: the boxes of the passages
CallerInputs ==
  { [ bbox_x0 |-> p.bbox_x0, bbox_y0 |-> p.bbox_y0, bbox_x1 |-> p.bbox_x1,
      bbox_y1 |-> p.bbox_y1, page_width |-> p.page_width, page_height |-> p.page_height ]
    : p \in { q \in PassageInputs : q.chunk_id \in {"c1", "c2", "c3", "c4"} } }

\* the locals of a call before its first statement
NoLocals ==
  [ bbox_x0 |-> Fin(0, 1), bbox_y0 |-> Fin(0, 1), bbox_x1 |-> Fin(0, 1),
    bbox_y1 |-> Fin(0, 1), page_width |-> Fin(0, 1), page_height |-> Fin(0, 1),
    center_x |-> Fin(0, 1), center_y |-> Fin(0, 1),
    rel_x |-> Fin(0, 1), rel_y |-> Fin(0, 1),
    vertical |-> "", horizontal |-> "" ]

\* one frame for all calls, as if the locals were module globals
FrameShared(c) == 1

\* the frame of the call of caller c: a call has a frame of its own
Frame(c) == c

InitConcurrent ==
  /\ args = NoArgs
  /\ result = NoResult
  /\ pc = "idle"
  /\ InitSession
  /\ InitRun
  /\ NoViewer
  /\ calls \in [Callers -> { [args |-> a, pc |-> "coerce", result |-> NoResult]
                             : a \in CallerInputs }]
  /\ frames = [f \in Callers |-> NoLocals]

\* caller c moves to statement `to`, its frame becoming `locals`
Continue(c, to, locals) ==
  /\ calls' = [calls EXCEPT ![c].pc = to]
  /\ frames' = [frames EXCEPT ![Frame(c)] = locals]
  /\ UNCHANGED <<callVars, sessionVars, runVars, requestVars, viewerVars,
                 buttonVars, ghostVars>>

\* the call of caller c ends with `outcome`
Finish(c, outcome) ==
  /\ calls' = [calls EXCEPT ![c].pc = "done", ![c].result = outcome]
  /\ UNCHANGED <<frames, callVars, sessionVars, runVars, requestVars, viewerVars,
                 buttonVars, ghostVars>>

\* lines 178-183
Coerce(c) ==
  /\ calls[c].pc = "coerce"
  /\ \E x0 \in {CoerceCoordinate(calls[c].args.bbox_x0)},
        y0 \in {CoerceCoordinate(calls[c].args.bbox_y0)},
        x1 \in {CoerceCoordinate(calls[c].args.bbox_x1)},
        y1 \in {CoerceCoordinate(calls[c].args.bbox_y1)},
        pw \in {CoerceDimension(calls[c].args.page_width, FallbackWidth)},
        ph \in {CoerceDimension(calls[c].args.page_height, FallbackHeight)} :
       \E coerced \in {FirstException(<<x0, y0, x1, y1, pw, ph>>)} :
          IF coerced # ""
          THEN Finish(c, HandleException(coerced))
          ELSE Continue(c, "guard",
                        [frames[Frame(c)] EXCEPT !.bbox_x0 = x0.f, !.bbox_y0 = y0.f,
                                                  !.bbox_x1 = x1.f, !.bbox_y1 = y1.f,
                                                  !.page_width = pw.f,
                                                  !.page_height = ph.f])

\* lines 186-189
Guard(c) ==
  /\ calls[c].pc = "guard"
  /\ Continue(c, "center",
              [frames[Frame(c)] EXCEPT !.page_width = ValidDimension(@, FallbackWidth),
                                        !.page_height = ValidDimension(@, FallbackHeight)])

\* lines 192-193
Center(c) ==
  /\ calls[c].pc = "center"
  /\ \E l \in {frames[Frame(c)]} :
       Continue(c, "relative",
                [l EXCEPT !.center_x = CenterPoint(l.bbox_x0, l.bbox_x1),
                          !.center_y = CenterPoint(l.bbox_y0, l.bbox_y1)])

\* lines 196-197
Relative(c) ==
  /\ calls[c].pc = "relative"
  /\ \E l \in {frames[Frame(c)]} :
       \E rel_x \in {FloatDiv(l.center_x, l.page_width)},
          rel_y \in {FloatDiv(l.center_y, l.page_height)} :
          \E divided \in {FirstException(<<rel_x, rel_y>>)} :
             IF divided # ""
             THEN Finish(c, HandleException(divided))
             ELSE Continue(c, "vertical", [l EXCEPT !.rel_x = rel_x.f, !.rel_y = rel_y.f])

\* lines 200-205
Vertical(c) ==
  /\ calls[c].pc = "vertical"
  /\ Continue(c, "horizontal",
              [frames[Frame(c)] EXCEPT !.vertical = VerticalBand(frames[Frame(c)].rel_y)])

\* lines 208-213
Horizontal(c) ==
  /\ calls[c].pc = "horizontal"
  /\ Continue(c, "return",
              [frames[Frame(c)] EXCEPT !.horizontal = HorizontalBand(frames[Frame(c)].rel_x)])

\* line 215
Return(c) ==
  /\ calls[c].pc = "return"
  /\ Finish(c, Returned(FormatLabel(frames[Frame(c)].vertical,
                                    frames[Frame(c)].horizontal)))

NextConcurrent ==
  \E c \in Callers :
    \/ Coerce(c)
    \/ Guard(c)
    \/ Center(c)
    \/ Relative(c)
    \/ Vertical(c)
    \/ Horizontal(c)
    \/ Return(c)

SpecConcurrent == InitConcurrent /\ [][NextConcurrent]_vars

(***************************************************************************)
(* The PDF viewer (streamlit_pdf_viewer.py).  "Highlight on PDF" stores a  *)
(* row of document_chunks as selected_citation, and the run that follows   *)
(* computes the rectangle of lines 129-132 from it.  The row's numbers are *)
(* Python floats or numpy floats depending on the dtypes of the frame: a   *)
(* division by zero raises ZeroDivisionError with the first and gives an   *)
(* infinity or a NaN with the second; a NULL is None (TypeError) with the  *)
(* first and a NaN with the second.  The model takes either.               *)
(***************************************************************************)
\* the rows a citation is selected from: boxes on pages of good and bad sizes
CitationCoordinates == {PyFloat(Fin(0, 1)), PyFloat(Fin(66, 1))}
CitationDimensions ==
  {PyFloat(Fin(100, 1)), PyFloat(Fin(200, 1)), PyFloat(Fin(0, 1)),
   PyFloat(Fin(0 - 100, 1)), PyNone}

CitationInputs ==
  [ bbox_x0 : CitationCoordinates, bbox_y0 : CitationCoordinates,
    bbox_x1 : CitationCoordinates, bbox_y1 : CitationCoordinates,
    page_width : CitationDimensions, page_height : CitationDimensions ]

\* a / b on two values of a row; numpy says which floats the row holds
RowDiv(a, b, numpy) ==
  CASE a.t = "None" \/ b.t = "None" ->
         IF numpy THEN Value(NaN) ELSE Raised("TypeError")
    [] b.f.k = "fin" /\ b.f.n = 0 ->
         IF ~numpy THEN Raised("ZeroDivisionError")
         ELSE Value(IF FSign(a.f) > 0 THEN PInf ELSE IF FSign(a.f) < 0 THEN NInf ELSE NaN)
    [] OTHER -> Value(FDiv(a.f, b.f))

\* a - b on two coordinates of a row
RowSub(a, b) == PyFloat(FAdd(a.f, Fin(0 - b.f.n, b.f.d)))

\* x * 100
Percent(x) == FDiv(x, Fin(1, 100))

\* lines 129-132: the rectangle, or the exception that ends the run
RelativePosition(citation, numpy) ==
  LET rel_x0 == RowDiv(citation.bbox_x0, citation.page_width, numpy)
      rel_y0 == RowDiv(citation.bbox_y0, citation.page_height, numpy)
      rel_width == RowDiv(RowSub(citation.bbox_x1, citation.bbox_x0),
                          citation.page_width, numpy)
      rel_height == RowDiv(RowSub(citation.bbox_y1, citation.bbox_y0),
                           citation.page_height, numpy)
      raised == FirstException(<<rel_x0, rel_y0, rel_width, rel_height>>)
  IN IF raised # "" THEN Propagated(raised)
     ELSE [ kind |-> "return",
            value |-> [ rel_x0 |-> Percent(rel_x0.f), rel_y0 |-> Percent(rel_y0.f),
                        rel_width |-> Percent(rel_width.f),
                        rel_height |-> Percent(rel_height.f) ] ]

InitViewer ==
  /\ args = NoArgs
  /\ result = NoResult
  /\ pc = "idle"
  /\ InitSession
  /\ InitRun
  /\ NoThreads
  /\ NoViewer

\* st.session_state['selected_citation'] = row; st.rerun()
SelectCitation ==
  /\ selected_citation' \in CitationInputs
  /\ highlight' = NoResult
  /\ UNCHANGED <<callVars, sessionVars, runVars, requestVars, threadVars,
                 buttonVars, ghostVars>>

\* the run after the selection reaches lines 125-132
Highlight ==
  /\ selected_citation # NoArgs
  /\ highlight = NoResult
  /\ \E numpy \in BOOLEAN : highlight' = RelativePosition(selected_citation, numpy)
  /\ UNCHANGED <<callVars, sessionVars, runVars, requestVars, threadVars, selected_citation,
                 buttonVars, ghostVars>>

NextViewer ==
  \/ SelectCitation
  \/ Highlight

SpecViewer == InitViewer /\ [][NextViewer]_vars

(***************************************************************************)
(* The execution log on its own: calls of log_execution_step, one after    *)
(* the other, more of them than the log keeps.                             *)
(***************************************************************************)
MaxLogged == 12

\* two of the steps the app logs
LogSteps == {"Cortex Search Execution", "Cortex Search Error"}

\* log_execution_step(step_name, details)
LogStep ==
  /\ Len(logged) < MaxLogged
  /\ \E step_name \in LogSteps :
       /\ execution_log' = log_execution_step(execution_log, step_name, "dose")
       /\ logged' = Append(logged, LogEntry(step_name, "dose"))
  /\ UNCHANGED <<callVars, search_history, performance_metrics, use_llm_synthesis,
                 selected_model, runVars, requestVars, threadVars, viewerVars,
                 buttonVars, recorded>>

NextLog == LogStep

SpecLog == InitApp /\ [][NextLog]_vars

(***************************************************************************)
(* Vocabulary of the properties.                                           *)
(***************************************************************************)
Verticals == {"top", "middle", "bottom"}
Horizontals == {"left", "center", "right"}
PositionLabels ==
  { "top-left", "top-center", "top-right",
    "middle-left", "middle-center", "middle-right",
    "bottom-left", "bottom-center", "bottom-right" }

Done == pc = "done"

\* the part of the returned label before and after the hyphen ("?" when the
\* call returned no label of that form)
VerticalPart ==
  IF \E v \in Verticals : \E h \in Horizontals : result = Returned(v \o "-" \o h)
  THEN CHOOSE v \in Verticals : \E h \in Horizontals : result = Returned(v \o "-" \o h)
  ELSE "?"
HorizontalPart ==
  IF \E v \in Verticals : \E h \in Horizontals : result = Returned(v \o "-" \o h)
  THEN CHOOSE h \in Horizontals : \E v \in Verticals : result = Returned(v \o "-" \o h)
  ELSE "?"

\* a number a float can hold, or text that reads as one
Numeric(v) == v.t \in {"int", "float"} \/ (v.t = "str" /\ ParseFloat(v.s).exc = "")
\* an argument the conversions of lines 178-183 accept
Convertible(v) == v = PyNone \/ Numeric(v)
\* a finite whole number, as a number or as text, or None (read as 0)
FiniteInput(v) ==
  v = PyNone \/ (Numeric(v) /\ ToFloat(v).f.k = "fin" /\ ToFloat(v).f.d = 1)
\* its value
NumOf(v) == IF v = PyNone THEN 0 ELSE ToFloat(v).f.n
\* a finite page dimension above zero
PositiveDim(v) == v # PyNone /\ FiniteInput(v) /\ NumOf(v) > 0
\* a page dimension that is missing, zero or negative
BadDim(v) == v = PyNone \/ (Numeric(v) /\ FLe(ToFloat(v).f, Fin(0, 1)))
\* text or an object float() rejects
Unconvertible(v) == v.t \in {"str", "list"} /\ ToFloat(v).exc # ""

\* twice the centre of the box, on each axis
SumX == NumOf(args.bbox_x0) + NumOf(args.bbox_x1)
SumY == NumOf(args.bbox_y0) + NumOf(args.bbox_y1)
FiniteBox ==
  /\ FiniteInput(args.bbox_x0) /\ FiniteInput(args.bbox_y0)
  /\ FiniteInput(args.bbox_x1) /\ FiniteInput(args.bbox_y1)

\* the call with other arguments
Call(x0, y0, x1, y1, pw, ph) == calculate_position_python(x0, y0, x1, y1, pw, ph)

(***************************************************************************)
(* C1: whenever the arguments are numbers or numeric text (numbers a float *)
(* can hold), the call returns one of the nine labels                      *)
(* <vertical>-<horizontal>; and no call ever returns any other string.     *)
(***************************************************************************)
C1_NineLabels ==
  Done =>
    /\ result.kind = "return" => result.value \in PositionLabels
    /\ ( /\ Numeric(args.bbox_x0) /\ Numeric(args.bbox_y0)
         /\ Numeric(args.bbox_x1) /\ Numeric(args.bbox_y1)
         /\ Numeric(args.page_width) /\ Numeric(args.page_height) )
       => result.kind = "return" /\ result.value \in PositionLabels

\* a call with numeric text among its arguments that returned a label other
\* than the default
C1_Witness ==
  /\ Done
  /\ args.bbox_x0.t = "str" /\ Numeric(args.bbox_x0)
  /\ Numeric(args.bbox_y0) /\ Numeric(args.bbox_x1) /\ Numeric(args.bbox_y1)
  /\ Numeric(args.page_width) /\ Numeric(args.page_height)
  /\ result = Returned("top-left")

(***************************************************************************)
(* C2: for a box of finite coordinates and a positive page height, with    *)
(* ry = ((y0+y1)/2)/height, the vertical part of the label is "top"        *)
(* exactly when ry > 0.67, "bottom" exactly when ry < 0.33 and "middle"    *)
(* otherwise.  (ry > 67/100 is 100*(y0+y1) > 134*height.)                  *)
(***************************************************************************)
C2_Pre ==
  /\ Done /\ FiniteBox
  /\ Convertible(args.page_width)
  /\ PositiveDim(args.page_height)

C2_VerticalBands ==
  C2_Pre =>
    LET h == NumOf(args.page_height)
    IN /\ VerticalPart \in Verticals
       /\ VerticalPart = "top" <=> 100 * SumY > 134 * h
       /\ VerticalPart = "bottom" <=> 100 * SumY < 66 * h
       /\ VerticalPart = "middle" <=> (100 * SumY <= 134 * h /\ 100 * SumY >= 66 * h)

C2_Witness ==
  /\ C2_Pre
  /\ VerticalPart = "top"
  /\ 100 * SumY > 134 * NumOf(args.page_height)
  /\ args.page_height = PyInt(100)
  /\ args.bbox_y0 = PyInt(66)

(***************************************************************************)
(* C3: for a box of finite coordinates and a positive page width, with     *)
(* rx = ((x0+x1)/2)/width, the horizontal part of the label is "left"      *)
(* exactly when rx < 0.33, "right" exactly when rx > 0.67 and "center"     *)
(* otherwise, whatever the y coordinates and the page height are (any      *)
(* values the conversions accept).                                         *)
(***************************************************************************)
C3_Pre ==
  /\ Done
  /\ FiniteInput(args.bbox_x0) /\ FiniteInput(args.bbox_x1)
  /\ PositiveDim(args.page_width)
  /\ Convertible(args.bbox_y0) /\ Convertible(args.bbox_y1)
  /\ Convertible(args.page_height)

C3_HorizontalBands ==
  C3_Pre =>
    LET w == NumOf(args.page_width)
    IN /\ HorizontalPart \in Horizontals
       /\ HorizontalPart = "left" <=> 100 * SumX < 66 * w
       /\ HorizontalPart = "right" <=> 100 * SumX > 134 * w
       /\ HorizontalPart = "center" <=> (100 * SumX >= 66 * w /\ 100 * SumX <= 134 * w)

\* rx > 0.67 while the y side is not a finite box on a positive page
C3_Witness ==
  /\ C3_Pre
  /\ HorizontalPart = "right"
  /\ args.bbox_y0 = PyFloat(NaN)
  /\ args.page_height = PyInt(-100)

(***************************************************************************)
(* C4: at the exact thresholds the middle band is chosen: ry = 0.67 or     *)
(* ry = 0.33 gives the vertical part "middle", rx = 0.33 or rx = 0.67      *)
(* gives the horizontal part "center".                                     *)
(***************************************************************************)
C4_Pre ==
  /\ Done /\ FiniteBox
  /\ PositiveDim(args.page_width) /\ PositiveDim(args.page_height)

C4_ThresholdsAreMiddle ==
  C4_Pre =>
    LET w == NumOf(args.page_width)
        h == NumOf(args.page_height)
    IN /\ (100 * SumY = 134 * h \/ 100 * SumY = 66 * h) => VerticalPart = "middle"
       /\ (100 * SumX = 66 * w \/ 100 * SumX = 134 * w) => HorizontalPart = "center"

\* ry = 0.67 and rx = 0.33 in one call
C4_Witness ==
  /\ C4_Pre
  /\ 100 * SumY = 134 * NumOf(args.page_height)
  /\ 100 * SumX = 66 * NumOf(args.page_width)
  /\ args.bbox_x0 = PyInt(0) /\ args.bbox_y0 = PyInt(0)
  /\ result = Returned("middle-center")

(***************************************************************************)
(* C5: a page_width (page_height) that is None, zero or negative is        *)
(* replaced by 612 (792) before the division: the call returns what the    *)
(* same box returns with that dimension given as 612 (792), and with both  *)
(* replaced what it returns on a 612 x 792 page.                           *)
(***************************************************************************)
C5_FallbackPage ==
  Done =>
    /\ BadDim(args.page_width) =>
         result = Call(args.bbox_x0, args.bbox_y0, args.bbox_x1, args.bbox_y1,
                       PyInt(612), args.page_height)
    /\ BadDim(args.page_height) =>
         result = Call(args.bbox_x0, args.bbox_y0, args.bbox_x1, args.bbox_y1,
                       args.page_width, PyInt(792))
    /\ (BadDim(args.page_width) /\ BadDim(args.page_height)) =>
         result = Call(args.bbox_x0, args.bbox_y0, args.bbox_x1, args.bbox_y1,
                       PyInt(612), PyInt(792))

\* a zero width and a negative height, and the label of the 612 x 792 page
C5_Witness ==
  /\ Done /\ FiniteBox
  /\ args.page_width = PyInt(0)
  /\ args.page_height = PyInt(-100)
  /\ args.bbox_x0 = PyInt(134) /\ args.bbox_y0 = PyInt(134)
  /\ result = Returned("bottom-left")

(***************************************************************************)
(* C6: a None coordinate is read as zero: the call returns what it returns *)
(* with every None coordinate replaced by 0; an all-None box on the        *)
(* fallback page gives "bottom-left".                                      *)
(***************************************************************************)
ZeroIfNone(v) == IF v = PyNone THEN PyInt(0) ELSE v

C6_NoneIsZero ==
  Done =>
    /\ result = Call(ZeroIfNone(args.bbox_x0), ZeroIfNone(args.bbox_y0),
                     ZeroIfNone(args.bbox_x1), ZeroIfNone(args.bbox_y1),
                     args.page_width, args.page_height)
    /\ ( /\ args.bbox_x0 = PyNone /\ args.bbox_y0 = PyNone
         /\ args.bbox_x1 = PyNone /\ args.bbox_y1 = PyNone
         /\ BadDim(args.page_width) /\ BadDim(args.page_height) )
       => result = Returned("bottom-left")

\* the all-None box with no page dimensions
C6_Witness ==
  /\ Done
  /\ args.bbox_x0 = PyNone /\ args.bbox_y0 = PyNone
  /\ args.bbox_x1 = PyNone /\ args.bbox_y1 = PyNone
  /\ args.page_width = PyNone /\ args.page_height = PyNone
  /\ result = Returned("bottom-left")

(***************************************************************************)
(* C7: the arguments are converted in the order x0, y0, x1, y1, width,     *)
(* height.  When the first conversion to fail is that of a coordinate      *)
(* that is text or an object float() rejects (an empty string, say), the   *)
(* call does not raise and returns "middle-center".  An absent (None)      *)
(* coordinate is no such input: it is read as zero, so an all-None box     *)
(* lies at the bottom left of any page.                                    *)
(***************************************************************************)
Coordinates == <<args.bbox_x0, args.bbox_y0, args.bbox_x1, args.bbox_y1>>

C8_Total == Done => result.kind = "return" /\ result.value \in PositionLabels

(***************************************************************************)
(* C9: a box outside the page is classified with the same thresholds: a    *)
(* normalized centre below 0 gives "left" / "bottom", one above 1 gives    *)
(* "right" / "top"; the default "middle-center" is not used for it.        *)
(***************************************************************************)
C9_OutsideThePage ==
  C4_Pre =>
    LET w == NumOf(args.page_width)
        h == NumOf(args.page_height)
    IN /\ SumX < 0 => HorizontalPart = "left"
       /\ SumX > 2 * w => HorizontalPart = "right"
       /\ SumY < 0 => VerticalPart = "bottom"
       /\ SumY > 2 * h => VerticalPart = "top"
       /\ (SumX < 0 \/ SumX > 2 * w \/ SumY < 0 \/ SumY > 2 * h)
            => result.kind = "return" /\ result.value # "middle-center"

\* left of the page and above it
C9_Witness ==
  /\ C4_Pre
  /\ SumX < 0
  /\ SumY > 2 * NumOf(args.page_height)
  /\ result = Returned("top-left")

(***************************************************************************)
(* C10: an inverted box (x1 < x0 or y1 < y0) does not make the call fail:  *)
(* it returns the label of the box's midpoint, the label it returns with   *)
(* x0/x1 swapped, with y0/y1 swapped, and with both swapped.               *)
(***************************************************************************)
Inverted ==
  \/ NumOf(args.bbox_x1) < NumOf(args.bbox_x0)
  \/ NumOf(args.bbox_y1) < NumOf(args.bbox_y0)

C10_InvertedBox ==
  ( /\ Done /\ FiniteBox /\ Inverted
    /\ Convertible(args.page_width) /\ Convertible(args.page_height) )
  =>
    /\ result.kind = "return" /\ result.value \in PositionLabels
    /\ result = Call(args.bbox_x1, args.bbox_y0, args.bbox_x0, args.bbox_y1,
                     args.page_width, args.page_height)
    /\ result = Call(args.bbox_x0, args.bbox_y1, args.bbox_x1, args.bbox_y0,
                     args.page_width, args.page_height)
    /\ result = Call(args.bbox_x1, args.bbox_y1, args.bbox_x0, args.bbox_y0,
                     args.page_width, args.page_height)
    /\ (PositiveDim(args.page_width) /\ PositiveDim(args.page_height)) =>
         LET w == NumOf(args.page_width)
             h == NumOf(args.page_height)
         IN /\ HorizontalPart =
                 (IF 100 * SumX < 66 * w THEN "left"
                  ELSE IF 100 * SumX > 134 * w THEN "right" ELSE "center")
            /\ VerticalPart =
                 (IF 100 * SumY > 134 * h THEN "top"
                  ELSE IF 100 * SumY < 66 * h THEN "bottom" ELSE "middle")

\* inverted on both axes, the midpoint at (67, 100) of a 100 x 100 page
C10_Witness ==
  /\ Done
  /\ args.bbox_x0 = PyInt(134) /\ args.bbox_x1 = PyInt(0)
  /\ args.bbox_y0 = PyInt(134) /\ args.bbox_y1 = PyInt(66)
  /\ args.page_width = PyInt(100) /\ args.page_height = PyInt(100)
  /\ result = Returned("top-center")

SpecLetter == InitLetter /\ [][Next]_vars

(***************************************************************************)
(* C11: on a 612 x 792 page the box (0,0,612,792) gives "middle-center",   *)
(* (450,700,600,780) gives "top-right", (0,0,100,100) gives "bottom-left"  *)
(* and (200,300,400,500) gives "middle-center".                            *)
(***************************************************************************)
LetterBox(x0, y0, x1, y1) ==
  [ bbox_x0 |-> PyInt(x0), bbox_y0 |-> PyInt(y0), bbox_x1 |-> PyInt(x1),
    bbox_y1 |-> PyInt(y1), page_width |-> PyInt(612), page_height |-> PyInt(792) ]

C11_WorkedExamples ==
  Done =>
    /\ args = LetterBox(0, 0, 612, 792) => result = Returned("middle-center")
    /\ args = LetterBox(450, 700, 600, 780) => result = Returned("top-right")
    /\ args = LetterBox(0, 0, 100, 100) => result = Returned("bottom-left")
    /\ args = LetterBox(200, 300, 400, 500) => result = Returned("middle-center")

\* the second example, classified
C11_Witness ==
  /\ Done
  /\ args = LetterBox(450, 700, 600, 780)
  /\ result = Returned("top-right")

(***************************************************************************)
(* C12: a call of calculate_position_python leaves search_history,         *)
(* execution_log, performance_metrics and the toggles as they were and     *)
(* appends no log entry, whether it returns a computed label or the        *)
(* default of the except clause.                                           *)
(***************************************************************************)
ClassifierReturns == pc = "call" /\ pc' = "done"

C12_NoSideEffects ==
  [][ClassifierReturns =>
        /\ search_history' = search_history
        /\ execution_log' = execution_log
        /\ Len(execution_log') = Len(execution_log)
        /\ performance_metrics' = performance_metrics
        /\ use_llm_synthesis' = use_llm_synthesis
        /\ selected_model' = selected_model]_vars

\* the call that ends in the except clause has returned in a session that has
\* searched, logged and counted
C12_Witness ==
  /\ pc = "done"
  /\ args.bbox_x0 = PyStr(<<>>)
  /\ result = Returned("middle-center")
  /\ Len(search_history) > 0
  /\ Len(execution_log) > 0
  /\ performance_metrics.total_searches > 0

(***************************************************************************)
(* C13: whatever way the statements of concurrent calls interleave, each   *)
(* caller gets the label a call on its own returns for its arguments, so   *)
(* calls with equal arguments get equal labels.                            *)
(***************************************************************************)
Solitary(a) ==
  calculate_position_python(a.bbox_x0, a.bbox_y0, a.bbox_x1, a.bbox_y1,
                            a.page_width, a.page_height)

C13_InterferenceFree ==
  /\ \A c \in Callers :
       calls[c].pc = "done" => calls[c].result = Solitary(calls[c].args)
  /\ \A c, d \in Callers :
       (calls[c].pc = "done" /\ calls[d].pc = "done" /\ calls[c].args = calls[d].args)
         => calls[c].result = calls[d].result

\* two calls with different arguments overlapped: the second started and
\* ended while the first stood between its coercions and its return
C13_Witness ==
  /\ calls[1].pc = "center"
  /\ calls[2].pc = "done"
  /\ calls[1].args # calls[2].args
  /\ calls[2].result = Returned("top-right")

(***************************************************************************)
(* C14: one invocation of search_protocols sends at most one request to    *)
(* the search service, one invocation of synthesize_answer_with_llm sends  *)
(* at most one AI_COMPLETE query, and a failed request is not sent again.  *)
(***************************************************************************)
SearchReturns == phase = "search" /\ phase' = "searched"
SynthesisReturns == phase = "synthesize" /\ phase' = "idle"
SearchFailed(s) == s.outcome \in {"raise", "json_raise"}
CompletionFailed(c) == c.outcome \in {"raise", "no_rows", "null"}

C14_SingleAttempt ==
  [][/\ search_requests' <= search_requests + 1
     /\ llm_requests' <= llm_requests + 1
     /\ search_requests' # search_requests => SearchReturns
     /\ llm_requests' # llm_requests => SynthesisReturns
     /\ (SearchReturns /\ SearchFailed(service')) => search_requests' = search_requests + 1
     /\ (SynthesisReturns /\ CompletionFailed(completion'))
          => llm_requests' = llm_requests + 1]_vars

\* a completion failed in the first run and the search in the second: one
\* AI_COMPLETE query and two search requests were sent
C14_Witness ==
  /\ phase = "searched"
  /\ SearchFailed(service)
  /\ search_requests = 2
  /\ llm_requests = 1
  /\ performance_metrics.llm_calls = 0

(***************************************************************************)
(* C15: when the search request or the parsing of its response raises,     *)
(* search_protocols returns: an empty result list and a response object    *)
(* with the error text and an empty results array; it has shown an error   *)
(* message and appended one error entry to the execution log.              *)
(***************************************************************************)
Last(s) == s[Len(s)]

C15_SearchErrorHandled ==
  [][(SearchReturns /\ SearchFailed(service')) =>
        /\ results' = <<>>
        /\ raw_response'.kind = "error"
        /\ raw_response'.error # ""
        /\ raw_response'.results = <<>>
        /\ error_shown'
        /\ Len(execution_log') =
             (IF Len(execution_log) < LogLimit THEN Len(execution_log) + 1 ELSE LogLimit)
        /\ Last(execution_log').step = "Cortex Search Error"
        /\ \A i \in 1..(Len(execution_log') - 1) :
             execution_log'[i] = execution_log[i + Len(execution_log) + 1 - Len(execution_log')]]_vars

\* response.json() raised in the second search of the session
C15_Witness ==
  /\ phase = "searched"
  /\ service.outcome = "json_raise"
  /\ search_requests = 2
  /\ results = <<>>
  /\ error_shown
  /\ Len(execution_log) > 1

(***************************************************************************)
(* C17: every entry of the formatted result list carries the label         *)
(* calculate_position_python returns for the box and the page size of the  *)
(* passage the entry was made from, and the entries stand in the order of  *)
(* their passages in the response.                                         *)
(***************************************************************************)
\* where the passage of a formatted entry stands in the response
PassageIndex(entry) ==
  CHOOSE k \in 1..Len(service.results) : service.results[k].chunk_id = entry.chunk_id

\* the label of a passage's own box on its own page
OwnLabel(p) ==
  calculate_position_python(GetField(p.bbox_x0, PyInt(0)), GetField(p.bbox_y0, PyInt(0)),
                            GetField(p.bbox_x1, PyInt(0)), GetField(p.bbox_y1, PyInt(0)),
                            GetField(p.page_width, PyInt(FallbackWidth)),
                            GetField(p.page_height, PyInt(FallbackHeight)))

C17_OwnLabelInOrder ==
  (phase \in {"searched", "synthesize"} /\ service.outcome = "ok") =>
    /\ \A i \in 1..Len(results) :
         /\ \E k \in 1..Len(service.results) :
              service.results[k].chunk_id = results[i].chunk_id
         /\ Returned(results[i].position) = OwnLabel(service.results[PassageIndex(results[i])])
    /\ \A i, j \in 1..Len(results) :
         i < j => PassageIndex(results[i]) < PassageIndex(results[j])

\* a response of three passages, the second skipped: the passage on the
\* 200 x 200 page keeps its own label behind the one on the 100 x 100 page
C17_Witness ==
  /\ phase = "searched"
  /\ Len(service.results) = 3
  /\ Len(results) = 2
  /\ results[1].chunk_id = "c1" /\ results[1].position = "top-right"
  /\ results[2].chunk_id = "c2" /\ results[2].position = "middle-left"

(***************************************************************************)
(* C16: the rectangle the viewer draws for a citation is 100*x0/W,         *)
(* 100*y0/H, 100*(x1-x0)/W and 100*(y1-y0)/H with W and H the page         *)
(* dimensions the classifier divides by for that citation: its own when    *)
(* positive, 612 and 792 when missing or not positive.                     *)
(***************************************************************************)
\* the dimension the classifier divides by (lines 182-189)
EffectiveDimension(dim, fallback) ==
  ValidDimension(CoerceDimension(dim, fallback).f, fallback)

\* 100 * length / dimension
PercentOf(length, dimension) == FDiv(FDiv(length, Fin(1, 100)), dimension)

C16_HighlightIsClassifierGeometry ==
  highlight # NoResult =>
    LET c == selected_citation
        W == EffectiveDimension(c.page_width, FallbackWidth)
        H == EffectiveDimension(c.page_height, FallbackHeight)
    IN /\ highlight.kind = "return"
       /\ FEq(highlight.value.rel_x0, PercentOf(c.bbox_x0.f, W))
       /\ FEq(highlight.value.rel_y0, PercentOf(c.bbox_y0.f, H))
       /\ FEq(highlight.value.rel_width, PercentOf(RowSub(c.bbox_x1, c.bbox_x0).f, W))
       /\ FEq(highlight.value.rel_height, PercentOf(RowSub(c.bbox_y1, c.bbox_y0).f, H))

(***************************************************************************)
(* C18: in a session in which the user has picked no model, the model the  *)
(* answer synthesis is called with is claude-4-sonnet.                     *)
(***************************************************************************)
C18_DefaultIsClaude4Sonnet ==
  (completion # NoCompletion /\ ~model_picked) => completion.model = "claude-4-sonnet"

(***************************************************************************)
(* C19: cortex_search_calls equals the number of requests sent to the      *)
(* search service in the session, whether they succeeded or failed.        *)
(***************************************************************************)
C19_SearchCallsCounted == performance_metrics.cortex_search_calls = search_requests

(***************************************************************************)
(* C20: llm_calls equals the number of AI_COMPLETE queries sent in the     *)
(* session, those that raised or returned no rows included.                *)
(***************************************************************************)
C20_LlmCallsCounted == performance_metrics.llm_calls = llm_requests

(***************************************************************************)
(* C21: after any sequence of log_execution_step calls the execution log   *)
(* holds at most 10 entries, and they are the entries logged last, up to   *)
(* 10 of them, in the order they were logged.                              *)
(***************************************************************************)
\* the last n elements of s, all of s when it has fewer
LastEntries(s, n) ==
  IF Len(s) <= n THEN s ELSE SubSeq(s, Len(s) - n + 1, Len(s))

C21_LastTenInOrder ==
  /\ Len(execution_log) <= 10
  /\ execution_log = LastEntries(logged, 10)

\* twelve entries were logged: the log starts at the third
C21_Witness ==
  /\ Len(logged) = 12
  /\ Len(execution_log) = 10
  /\ execution_log[1] = logged[3]
  /\ logged[1] # logged[3]

(***************************************************************************)
(* C22: once the run that "Clear History" triggers has completed, the      *)
(* search history is empty, whatever text is in the query box.             *)
(***************************************************************************)
C22_ClearLeavesHistoryEmpty ==
  (phase = "idle" /\ pressed = "cleared") => search_history = <<>>

(***************************************************************************)
(* C23: once the run that "Reset Session Metrics" triggers has completed,  *)
(* the six counters of performance_metrics are 0 and the execution log is  *)
(* empty, whatever text is in the query box.                               *)
(***************************************************************************)
C23_ResetLeavesMetricsZero ==
  (phase = "idle" /\ pressed = "was reset") =>
    /\ performance_metrics.total_searches = 0
    /\ performance_metrics.total_response_time = 0
    /\ performance_metrics.cortex_search_calls = 0
    /\ performance_metrics.llm_calls = 0
    /\ performance_metrics.total_input_tokens = 0
    /\ performance_metrics.total_output_tokens = 0
    /\ execution_log = <<>>

(***************************************************************************)
(* C24: a run that executes a search inserts one entry at the front of the *)
(* search history and adds one to total_searches, and nothing else adds to *)
(* the history; so the history is newest first, as long as the number of   *)
(* such runs since it was cleared, and the Search History tab lists its    *)
(* first 10 entries at most.                                               *)
(***************************************************************************)
SearchRecorded == phase = "searched" /\ phase' # "searched"

C24_HistoryNewestFirst ==
  /\ [](/\ Len(search_history) = recorded
        /\ Len(RecentSearches(search_history)) <= 10
        /\ \A i \in 1..Len(RecentSearches(search_history)) :
             RecentSearches(search_history)[i] = search_history[i]
        /\ Len(search_history) <= 10 => RecentSearches(search_history) = search_history)
  /\ [][/\ SearchRecorded =>
             /\ search_history' # <<>>
             /\ Head(search_history') = [query |-> query, results_count |-> Len(results)]
             /\ Tail(search_history') = search_history
             /\ performance_metrics'.total_searches = performance_metrics.total_searches + 1
        /\ search_history' # search_history => (SearchRecorded \/ search_history' = <<>>)]_vars

\* the twelfth search of a session found two passages: its entry is the
\* first of the ten the tab lists
C24_Witness ==
  /\ Len(search_history) = 12
  /\ search_history[1].results_count = 2
  /\ search_history[2].results_count = 0
  /\ performance_metrics.total_searches = 1
  /\ Len(RecentSearches(search_history)) = 10

(***************************************************************************)
(* C25: a passage with a bounding-box coordinate or a page number that     *)
(* cannot be converted to a number is left out of the formatted results    *)
(* and every other passage of the response is in them; so the formatted    *)
(* list is no longer than the results array and the search does not fail.  *)
(***************************************************************************)
\* float(v) fails; None is read as 0 and a missing key as its default
NotANumber(v) == v \notin {PyNone, PyMissing} /\ ToFloat(v).exc # ""

\* int(float(v)) fails
NotAPage(v) ==
  \/ NotANumber(v)
  \/ v \notin {PyNone, PyMissing} /\ ToFloat(v).f.k # "fin"

MalformedPassage(p) ==
  \/ NotANumber(p.bbox_x0) \/ NotANumber(p.bbox_y0)
  \/ NotANumber(p.bbox_x1) \/ NotANumber(p.bbox_y1)
  \/ NotAPage(p.page)

Formatted(p) == \E i \in 1..Len(results) : results[i].chunk_id = p.chunk_id

C25_MalformedPassageSkipped ==
  (phase \in {"searched", "synthesize"} /\ service.outcome = "ok") =>
    /\ \A k \in 1..Len(service.results) :
         Formatted(service.results[k]) <=> ~MalformedPassage(service.results[k])
    /\ Len(results) <= Len(service.results)
    /\ ~error_shown
    /\ raw_response.kind # "error"

(***************************************************************************)
(* C26: with valid coordinates and a page_width or page_height that is not *)
(* a number, the call returns the label the box has on the fallback        *)
(* dimension (612 wide, 792 high), not the default label.                  *)
(***************************************************************************)
\* the dimension, or its fallback when it is not a number
Recovered(dim, fallback) == IF Unconvertible(dim) THEN PyInt(fallback) ELSE dim

C26_DimensionFallback ==
  ( /\ Done
    /\ FiniteBox
    /\ Unconvertible(args.page_width) \/ Unconvertible(args.page_height) )
  => result = Call(args.bbox_x0, args.bbox_y0, args.bbox_x1, args.bbox_y1,
                   Recovered(args.page_width, FallbackWidth),
                   Recovered(args.page_height, FallbackHeight))

(***************************************************************************)
(* C27: generation follows retrieval.                                      *)
(***************************************************************************)
\* the step that sends the AI_COMPLETE query
CompletionIssued == llm_requests' # llm_requests

\* search_protocols has returned in this script run, for the text of the
\* query box, and the run has recorded that search
SearchReturnedForQuery ==
  /\ phase = "synthesize"
  /\ service # NoService
  /\ search_history # <<>>
  /\ Head(search_history).query = query
  /\ Head(search_history).results_count = Len(results)

\* C27: within a script run the AI_COMPLETE query is sent only after
\* search_protocols has returned for the same query, only while
\* use_llm_synthesis is enabled and the search returned at least one formatted
\* result, and the synthesis is given the first results of the search, at
\* most 5 of them.
C27_GenerationFollowsRetrieval ==
  [][ CompletionIssued =>
        /\ SearchReturnedForQuery
        /\ use_llm_synthesis
        /\ Len(results) > 0
        /\ Len(completion'.context) <= 5
        /\ Len(completion'.context) <= Len(results)
        /\ completion'.context = SubSeq(results, 1, Len(completion'.context)) ]_vars

\* a synthesis was given five of the six results of its search
C27_Witness ==
  /\ completion # NoCompletion
  /\ completion.outcome = "answer"
  /\ use_llm_synthesis
  /\ Len(results) = 6
  /\ Len(completion.context) = 5
  /\ llm_requests > 0

(***************************************************************************)
(* C28: what synthesize_answer_with_llm returns and counts.                *)
(***************************************************************************)
\* the citations returned hold one entry per search result given, in the
\* order given, numbered from 1
OneCitationPerResult(cited, given) ==
  /\ Len(cited) = Len(given)
  /\ \A i \in 1..Len(given) :
        /\ cited[i].source_num = i
        /\ cited[i].page = given[i].page
        /\ cited[i].position = given[i].position
        /\ cited[i].bbox = given[i].bbox

\* llm_calls and the two token counters
LlmCounters(metrics) ==
  <<metrics.llm_calls, metrics.total_input_tokens, metrics.total_output_tokens>>

\* the completion answered with a row that holds a text
SuccessfulResponse(c) == c.outcome = "answer"

\* C28: synthesize_answer_with_llm returns an answer and the citations also
\* when the completion call fails or returns no rows; in every outcome the
\* citations hold exactly one entry per search result given, in the order
\* given, with source_num running 1..n; llm_calls and the token counters
\* change only on a successful non-empty response.
C28_SynthesisReturnsAndCounts ==
  [][ CompletionIssued =>
        /\ answer' # ""
        /\ OneCitationPerResult(citations', completion'.context)
        /\ (~SuccessfulResponse(completion') =>
              LlmCounters(performance_metrics') = LlmCounters(performance_metrics)) ]_vars

====
